---- MODULE Spec2Model ----
(***************************************************************************)
(* tm88plus: TM88IV, a python-escpos Network printer that prints Japanese  *)
(* and emoji text on an Epson TM-T88IV.  Characters the printer's built-in *)
(* font cannot print are rasterized, registered in one of the printer's    *)
(* user-defined glyph slots (gaiji) and selected by the slot's code.       *)
(*                                                                         *)
(* Byte strings are sequences of numbers 0..255, Python strings are        *)
(* sequences of code points.  The variable sent is the log of the _raw     *)
(* calls of the operation in progress; it is emptied when jptext2 returns. *)
(***************************************************************************)
EXTENDS Integers, Sequences, FiniteSets, TLC

(* ------------------------------ bounds -------------------------------- *)
\* Number of entries of USER_KANJI_AREAS_SJIS the model keeps (94 in the code).
MaxGaijiSlots == 3
\* Number of entries of USER_AREAS_ASCII the model keeps (95 in the code).
MaxUserSlots == 2
\* Longest text handed to jptext2.
MaxLen == 2
\* Longest text handed to jptext2 in the sessions of many calls (SpecPool).
MaxPoolLen == 1
\* Most black pixels of a bitmap handed to the packer, unless it is solid;
\* they lie in one column.
MaxPixels == 1

(* ------------------------ escpos.constants ---------------------------- *)
ESC == <<27>>
FS == <<28>>
GS == <<29>>

(* ------------------------- class attributes --------------------------- *)
\* b'\x20' .. b'\x7e'
USER_AREAS_ASCII == [i \in 1..MaxUserSlots |-> <<31 + i>>]

\* b'\x40' .. b'\x7e', b'\x80' .. b'\x9e'
USER_KANJI_AREAS_SJIS ==
    [i \in 1..MaxGaijiSlots |-> IF i <= 63 THEN <<63 + i>> ELSE <<64 + i>>]

(* --------------------------- configuration ---------------------------- *)
jis0201_file == "JIS0201.TXT"
jis0208_file == "JIS0208.TXT"
jis0212_file == "JIS0212.TXT"
jis0213_file == "JIS0213-2004.TXT"
emoji_font_file == "OpenMoji-black-glyf.ttf"
kanji_font_file == "NotoSansJP-Medium.otf"
fallback_font_file == "unifont_jp-16.0.03.otf"

emoji_profile ==
    [font |-> emoji_font_file, size |-> 20, adjustX |-> 0, adjustY |-> 0]
kanji_profile ==
    [font |-> kanji_font_file, size |-> 24, adjustX |-> 0, adjustY |-> -8]
fallback_profile ==
    [font |-> fallback_font_file, size |-> 24, adjustX |-> 2, adjustY |-> 0]
\* jptext2's params before any branch has set it
no_profile == [font |-> "", size |-> 0, adjustX |-> 0, adjustY |-> 0]

\* The seven paths of the configuration (lines 90-118).
ConfigFiles ==
    { jis0201_file, jis0208_file, jis0212_file, jis0213_file,
      emoji_font_file, kanji_font_file, fallback_font_file }

required_files_without_kanji_font ==
    << jis0201_file, jis0208_file, jis0212_file, jis0213_file,
       emoji_font_file, fallback_font_file >>
required_files ==
    << jis0201_file, jis0208_file, jis0212_file, jis0213_file,
       emoji_font_file, kanji_font_file, fallback_font_file >>

Range(s) == {s[i] : i \in 1..Len(s)}

(* ----------------------- characters of the texts ---------------------- *)
\*   65 'A'       ASCII (and JIS X 0201)
\*  165 U+00A5    JIS X 0201 (0x5C), not encodable in cp932
\* 65393 U+FF71   JIS X 0201 half-width katakana
\* 20124 U+4E9C   JIS X 0208 and JIS X 0213
\* 19970 U+4E02   JIS X 0212
\* 20465 U+4FF1   JIS X 0213 only
\*  9832 U+2668   JIS X 0213 and emoji
\* 128077 U+1F44D emoji only
\*  2479 U+09AF   in no table, no emoji
Chars == {65, 165, 65393, 20124, 19970, 20465, 9832, 128077, 2479}

\* The rows of the four table files that concern Chars.
JIS0201_TXT == {65, 165, 65393}
JIS0208_TXT == {20124}
JIS0212_TXT == {19970}
JIS0213_TXT == {20124, 20465, 9832}
\* emoji.is_emoji
is_emoji(c) == c \in {9832, 128077}
\* str.isascii
isascii(c) == c < 128

\* str.encode('cp932', 'ignore'): one byte for ASCII and half-width katakana,
\* two bytes (Shift JIS) for JIS X 0208, nothing for what cp932 lacks.
encode_cp932(c) ==
    IF c < 128 THEN <<c>>
    ELSE IF c >= 65377 /\ c <= 65439 THEN <<c - 65216>>
    ELSE IF c = 20124 THEN <<136, 159>>
    ELSE <<>>

\* The codes the two lists enumerate.
UserCodeSpace == 32..126
KanjiCodeSpace == (64..126) \cup (128..158)

(* ------------------------------- state -------------------------------- *)
VARIABLES
    files,         \* the required files that exist on disk
    pc,            \* "new", "FileNotFoundError", "idle", "jptext2", "return"
    network,       \* TRUE once Network.__init__ has run
    user_areas,    \* self._user_areas: OrderedDict as a sequence of [k, v]
    gaiji_areas,   \* self._gaiji_areas
    font_cache,    \* self._font_cache: the keys cached
    jis,           \* self._jis_x_0201 .. self._jis_x_0213
    call,          \* arguments and locals of the jptext2 call
    printed,       \* TRUE once a jptext2 call has returned
    sent,          \* log of the _raw calls of the operation in progress
    last_define,   \* history: the latest _define_gaiji call, and whether its
                   \* character had lost a slot before
    defined,       \* history: per slot, image of the latest FS 2 sent for it
    attr,          \* history: operands of the latest ESC !, FS !, GS B sent
    refs,          \* history: registered characters, oldest reference first
    evicted,       \* history: characters whose slot was given to another
    bitmap,        \* img of _escpos_register_gaiji after convert('1')
    byte_array,    \* byte_array of _escpos_register_gaiji
    threads        \* the callers inside _define_gaiji, when there are several

\* The variables that only the packer and the concurrent callers use.
aux == << bitmap, byte_array, threads >>
vars == << files, pc, network, user_areas, gaiji_areas, font_cache, jis, call,
           printed, sent, last_define, defined, attr, refs, evicted, aux >>

(* ------------------------------ messages ------------------------------ *)
\* What Image.new + draw.text + convert('1') yield is decided by these.
NoImage ==
    [gaiji |-> <<>>, font |-> "", size |-> 0, x |-> 0, y |-> 0, w |-> 0, h |-> 0]
Image(gaiji, font, size, adjustX, adjustY, asciiflg) ==
    [gaiji |-> gaiji, font |-> font, size |-> size, x |-> adjustX, y |-> adjustY,
     w |-> IF asciiflg THEN 12 ELSE 24, h |-> 24]

\* One _raw(bytes) call.
Raw(bytes) == [bytes |-> bytes, img |-> NoImage]
\* The loop 'for byte in byte_array: self._raw(byte)' over the packed image.
RawBitmap(img) == [bytes |-> <<>>, img |-> img]

c1 == <<236>>

(* ------------------- _escpos_register_gaiji: packing ------------------ *)
\* A bitmap is its size and the set of its black pixels <<x, y>>.
NoBitmap == [w |-> 0, h |-> 0, black |-> {}]

\* int(bit_str, 2): the first character is the most significant bit.
RECURSIVE int2_lsb_first(_)
int2_lsb_first(bit_str) ==
    IF bit_str = <<>> THEN 0
    ELSE bit_str[1] + 2 * int2_lsb_first(Tail(bit_str))
RECURSIVE int2(_)
int2(bit_str) ==
    IF bit_str = <<>> THEN 0
    ELSE 2 * int2(SubSeq(bit_str, 1, Len(bit_str) - 1)) + bit_str[Len(bit_str)]

\* Lines 251-261: 'for y in range(img.height)' for column x, from row y on,
\* with the locals st = [bit_str, byte_array] as they are.
RECURSIVE pack_rows(_, _, _, _)
pack_rows(img, x, y, st) ==
    IF y >= img.h THEN st
    ELSE LET bits == Append(st.bit_str, IF <<x, y>> \in img.black THEN 1 ELSE 0)
         IN  IF (y + 1) % 8 = 0
             THEN pack_rows(img, x, y + 1,
                            [bit_str |-> <<>>,
                             byte_array |-> Append(st.byte_array, int2(bits))])
             ELSE pack_rows(img, x, y + 1,
                            [bit_str |-> bits, byte_array |-> st.byte_array])
\* Line 250: 'for x in range(img.width)', from column x on.  (A length is
\* never negative: the second test only has TLC evaluate st at each column
\* instead of at the end, where the nesting would be too deep for it.)
RECURSIVE pack_columns(_, _, _)
pack_columns(img, x, st) ==
    IF x >= img.w \/ Len(st.byte_array) < 0 THEN st.byte_array
    ELSE pack_columns(img, x + 1, pack_rows(img, x, 0, st))
\* Lines 248-262.
pack(img) == pack_columns(img, 0, [bit_str |-> <<>>, byte_array |-> <<>>])

(* --------------------------- _get_font -------------------------------- *)
get_font(cache, font_path, size, encoding) ==
    cache \cup {<<font_path, size, encoding>>}

(* ---------------------- _escpos_register_gaiji ------------------------ *)
\* The _raw calls, in order, and the font cache afterwards.
register_without_bitmap(cache, c2, gaiji, font, size, adjustX, adjustY, asciiflg) ==
    [cache |-> get_font(cache, font, size, "unic"), msgs |-> <<>>]
register_with_c2_twice(cache, c2, gaiji, font, size, adjustX, adjustY, asciiflg) ==
    [cache |-> get_font(cache, font, size, "unic"),
     msgs  |-> << Raw(FS \o <<50>> \o c1 \o c2 \o c2),
                  RawBitmap(Image(gaiji, font, size, adjustX, adjustY, asciiflg)) >>]
escpos_register_gaiji(cache, c2, gaiji, font, size, adjustX, adjustY, asciiflg) ==
    LET img == Image(gaiji, font, size, adjustX, adjustY, asciiflg)
    IN  [cache |-> get_font(cache, font, size, "unic"),
         msgs  |-> IF asciiflg
                   THEN << Raw(ESC \o <<38, 3>> \o c2 \o c2), Raw(<<12>>),
                           RawBitmap(img) >>
                   ELSE << Raw(FS \o <<50>> \o c1 \o c2), RawBitmap(img) >>]

(* --------------------------- _define_gaiji ---------------------------- *)
\* 'for k, v in areas.items(): if v == gaiji': position of the first such
\* entry, 0 when there is none.
never_found(areas, gaiji) == 0
find_occupant(areas, gaiji) ==
    IF \E i \in 1..Len(areas) : areas[i].v = gaiji
    THEN CHOOSE i \in 1..Len(areas) :
            /\ areas[i].v = gaiji
            /\ \A j \in 1..(i - 1) : areas[j].v # gaiji
    ELSE 0

RemoveAt(s, i) == SubSeq(s, 1, i - 1) \o SubSeq(s, i + 1, Len(s))

\* areas[k] = areas.pop(k): entry i goes to the end of the order.
touch_in_place(areas, i) == areas
touch_to_front(areas, i) == <<areas[i]>> \o RemoveAt(areas, i)
touch(areas, i) == Append(RemoveAt(areas, i), areas[i])

\* The second loop's first iteration: the first entry is popped and
\* re-inserted with the new occupant.
pop_first(areas, gaiji) == Tail(areas)
replace_first(areas, gaiji) ==
    Append(Tail(areas), [k |-> areas[1].k, v |-> gaiji])

\* 'return self._c1 + k' of the first loop.
hit_bytes_of_first_slot(areas, hit) == c1 \o areas[1].k
hit_bytes(areas, hit) == c1 \o areas[hit].k

\* Result of a call: both pools, the font cache, the _raw calls made, the
\* value returned, the exception raised ("" for none), and whether the
\* rasterizer ran.
define_gaiji(uareas, gareas, cache, gaiji, font, size, adjustX, adjustY, asciiflg) ==
    LET areas == IF asciiflg THEN uareas ELSE gareas
        hit   == find_occupant(areas, gaiji)
        pools(a) == IF asciiflg THEN [user |-> a, gaiji |-> gareas]
                                ELSE [user |-> uareas, gaiji |-> a]
    IN  IF hit # 0
        THEN [pools |-> pools(touch(areas, hit)), cache |-> cache, msgs |-> <<>>,
              \* the ascii branch adds the str ' \x01' to bytes
              out |-> IF asciiflg THEN <<>> ELSE hit_bytes(areas, hit),
              err |-> IF asciiflg THEN "TypeError" ELSE "",
              raster |-> FALSE]
        ELSE IF Len(areas) > 0
        THEN LET k   == areas[1].k
                 reg == escpos_register_gaiji(cache, k, gaiji, font, size,
                                              adjustX, adjustY, asciiflg)
             IN  [pools |-> pools(replace_first(areas, gaiji)),
                  cache |-> reg.cache, msgs |-> reg.msgs,
                  out |-> IF asciiflg
                          THEN ESC \o <<37, 1>> \o k \o ESC \o <<37, 0>>
                          ELSE c1 \o k,
                  err |-> "", raster |-> TRUE]
        ELSE [pools |-> pools(areas), cache |-> cache, msgs |-> <<>>,
              out |-> <<>>, err |-> "", raster |-> FALSE]

(* ------------------------------ jptext2 ------------------------------- *)
\* Lines 354-364: the operands n (FS !) and b (ESC !).
mode_n_without_underline(dw, dh, underline) ==
    (IF dw THEN 4 ELSE 0) + (IF dh THEN 8 ELSE 0)
mode_n(dw, dh, underline) ==
    (IF dw THEN 4 ELSE 0) + (IF dh THEN 8 ELSE 0) + (IF underline THEN 128 ELSE 0)
mode_b_with_the_bits_of_n(dw, dh, underline) ==
    (IF dw THEN 4 ELSE 0) + (IF dh THEN 8 ELSE 0) + (IF underline THEN 128 ELSE 0)
mode_b(dw, dh, underline) ==
    (IF dw THEN 16 ELSE 0) + (IF dh THEN 32 ELSE 0) + (IF underline THEN 128 ELSE 0)

\* Lines 365-370.
set_commands(n, b, bflg, wbreverse) ==
    (IF n # 0
     THEN (IF bflg THEN << Raw(ESC \o <<33>> \o <<b>>) >> ELSE <<>>)
          \o << Raw(FS \o <<33>> \o <<n>>) >>
     ELSE <<>>)
    \o (IF wbreverse THEN << Raw(GS \o <<66, 1>>) >> ELSE <<>>)

\* Lines 413-418.
clear_commands_single_byte_always(n, bflg, wbreverse) ==
    (IF n # 0 THEN << Raw(ESC \o <<33, 0>>), Raw(FS \o <<33, 0>>) >> ELSE <<>>)
    \o (IF wbreverse THEN << Raw(GS \o <<66, 0>>) >> ELSE <<>>)
clear_commands(n, bflg, wbreverse) ==
    (IF n # 0
     THEN (IF bflg THEN << Raw(ESC \o <<33, 0>>) >> ELSE <<>>)
          \o << Raw(FS \o <<33, 0>>) >>
     ELSE <<>>)
    \o (IF wbreverse THEN << Raw(GS \o <<66, 0>>) >> ELSE <<>>)

\* Lines 375-405: the branch taken for c, as the profile it selects
\* ("builtin" for the first branch).
classify_kanji_first(tables, c) ==
    IF c \in tables.x0212 \/ c \in tables.x0213 THEN "kanji"
    ELSE IF isascii(c) \/ c \in tables.x0201 \/ c \in tables.x0208 THEN "builtin"
    ELSE IF is_emoji(c) THEN "emoji"
    ELSE "fallback"
classify_emoji_first(tables, c) ==
    IF isascii(c) \/ c \in tables.x0201 \/ c \in tables.x0208 THEN "builtin"
    ELSE IF is_emoji(c) THEN "emoji"
    ELSE IF c \in tables.x0212 \/ c \in tables.x0213 THEN "kanji"
    ELSE "fallback"
classify(tables, c) ==
    IF isascii(c) \/ c \in tables.x0201 \/ c \in tables.x0208 THEN "builtin"
    ELSE IF c \in tables.x0212 \/ c \in tables.x0213 THEN "kanji"
    ELSE IF is_emoji(c) THEN "emoji"
    ELSE "fallback"

profile(branch) ==
    CASE branch = "kanji" -> kanji_profile
      [] branch = "emoji" -> emoji_profile
      [] branch = "fallback" -> fallback_profile
      [] OTHER -> no_profile

\* asciiflg of the params of the branch (lines 386, 395, 404).
asciiflg_for_fallback(branch) == branch = "fallback"
asciiflg_of(branch) == FALSE

\* What becomes of the loop when _define_gaiji raises err: jptext2 has no
\* handler, the exception leaves it (lines 407-411).
skip_character(err) == [pc |-> "jptext2", step |-> 1]
propagate(err) == [pc |-> err, step |-> 0]

\* 'for c in text': the character of iteration i.
char_at_reversed(text, i) == text[Len(text) + 1 - i]
char_at(text, i) == text[i]

(* ------------------------- reading the log ---------------------------- *)
\* FS 2 c1 c2: definition of the user-defined kanji c1 c2.
IsDefinition(m) == Len(m.bytes) >= 3 /\ SubSeq(m.bytes, 1, 3) = FS \o <<50>> \o c1
\* The packed bitmap that follows a definition.
IsBitmap(m) == m.img # NoImage
\* c1 c2 in the text: the user-defined kanji c1 c2 is printed.
IsSelection(m) == Len(m.bytes) = 2 /\ SubSeq(m.bytes, 1, 1) = c1
\* ESC ! b, FS ! n, GS B r.
IsPrintMode(m) == Len(m.bytes) = 3 /\ SubSeq(m.bytes, 1, 2) = ESC \o <<33>>
IsKanjiMode(m) == Len(m.bytes) = 3 /\ SubSeq(m.bytes, 1, 2) = FS \o <<33>>
IsReverse(m)   == Len(m.bytes) = 3 /\ SubSeq(m.bytes, 1, 2) = GS \o <<66>>
IsAttribute(m) == IsPrintMode(m) \/ IsKanjiMode(m) \/ IsReverse(m)

\* defined, after msgs have been sent: a bitmap defines the slot named by
\* the definition header sent right before it.
RECURSIVE DefinedAfter(_, _)
DefinedAfter(d, msgs) ==
    IF Len(msgs) < 2 THEN d
    ELSE IF IsDefinition(msgs[1]) /\ Len(msgs[1].bytes) = 4 /\ IsBitmap(msgs[2])
              /\ SubSeq(msgs[1].bytes, 4, 4) \in DOMAIN d
         THEN DefinedAfter([d EXCEPT ![SubSeq(msgs[1].bytes, 4, 4)] = msgs[2].img],
                           Tail(Tail(msgs)))
         ELSE DefinedAfter(d, Tail(msgs))

\* attr, after msgs have been sent.
RECURSIVE AttrAfter(_, _)
AttrAfter(a, msgs) ==
    IF msgs = <<>> THEN a
    ELSE LET m == msgs[1]
             a1 == IF IsPrintMode(m) THEN [a EXCEPT !.single = m.bytes[3]]
                   ELSE IF IsKanjiMode(m) THEN [a EXCEPT !.kanji = m.bytes[3]]
                   ELSE IF IsReverse(m) THEN [a EXCEPT !.reverse = m.bytes[3]]
                   ELSE a
         IN  AttrAfter(a1, Tail(msgs))

\* The characters that have a slot defined for them.
DefinedChars(d) == {d[k].gaiji : k \in DOMAIN d} \ {<<>>}

RECURSIVE Keep(_, _)
Keep(s, S) ==
    IF s = <<>> THEN <<>>
    ELSE IF s[1] \in S THEN <<s[1]>> \o Keep(Tail(s), S) ELSE Keep(Tail(s), S)

\* refs, after gaiji has been referenced and the log has become d.
RefsAfter(r, gaiji, d) ==
    Keep(Keep(r, Range(r) \ {gaiji}) \o <<gaiji>>, DefinedChars(d))

\* evicted, after gaiji has been referenced and the log has gone from d to e.
EvictedAfter(ev, gaiji, d, e) ==
    (ev \cup (DefinedChars(d) \ DefinedChars(e))) \ {gaiji}

(* ------------------------------- inputs ------------------------------- *)
TextsOver(S, max) == UNION {[1..len -> S] : len \in 0..max}
ArgsOver(S, max, B) ==
    [text : TextsOver(S, max), dw : B, dh : B, underline : B, wbreverse : B,
     bflg : B]
\* Any text with any attributes.
Inputs == ArgsOver(Chars, MaxLen, BOOLEAN)
\* Texts of the characters that need a glyph, without attributes.
GaijiChars == {19970, 20465, 9832, 128077, 2479}
PoolInputs == ArgsOver(GaijiChars, MaxPoolLen, {FALSE})
\* Texts of one built-in and one glyph character, with any attributes.
AttrChars == {65, 128077}
AttrInputs == ArgsOver(AttrChars, MaxLen, BOOLEAN)

NoCall ==
    [text |-> <<>>, dw |-> FALSE, dh |-> FALSE, underline |-> FALSE,
     wbreverse |-> FALSE, bflg |-> FALSE, n |-> 0, b |-> 0, i |-> 1,
     rasters |-> 0]
NoDefine ==
    [gaiji |-> <<>>, out |-> <<>>, again |-> FALSE, asciiflg |-> FALSE, err |-> ""]

(* ------------------------------ actions ------------------------------- *)
Init ==
    /\ files \in SUBSET ConfigFiles
    /\ pc = "new"
    /\ network = FALSE
    /\ user_areas = <<>>
    /\ gaiji_areas = <<>>
    /\ font_cache = {}
    /\ jis = [x0201 |-> {}, x0208 |-> {}, x0212 |-> {}, x0213 |-> {}]
    /\ call = NoCall
    /\ printed = FALSE
    /\ sent = <<>>
    /\ last_define = NoDefine
    /\ defined = [k \in Range(USER_KANJI_AREAS_SJIS) |-> NoImage]
    /\ attr = [single |-> 0, kanji |-> 0, reverse |-> 0]
    /\ refs = <<>>
    /\ evicted = {}
    /\ bitmap = NoBitmap
    /\ byte_array = <<>>
    /\ threads = <<>>

\* TM88IV.__init__ of a class whose USER_AREAS_ASCII and
\* USER_KANJI_AREAS_SJIS are ascii and sjis (they are read through self,
\* lines 142 and 145, so that a subclass may give its own).
ConstructWith(ascii, sjis) ==
    /\ pc = "new"
    /\ IF \E i \in 1..Len(required_files) : required_files[i] \notin files
       THEN /\ pc' = "FileNotFoundError"
            /\ UNCHANGED << network, user_areas, gaiji_areas, font_cache, jis, sent >>
       ELSE /\ network' = TRUE
            /\ user_areas' = [i \in 1..Len(ascii) |-> [k |-> ascii[i], v |-> <<>>]]
            /\ gaiji_areas' = [i \in 1..Len(sjis) |-> [k |-> sjis[i], v |-> <<>>]]
            /\ font_cache' = {}
            /\ sent' = << Raw(ESC \o <<116, 1>>), Raw(FS \o <<38>>),
                          Raw(FS \o <<67, 1>>) >>
            /\ jis' = [x0201 |-> JIS0201_TXT, x0208 |-> JIS0208_TXT,
                       x0212 |-> JIS0212_TXT, x0213 |-> JIS0213_TXT]
            /\ pc' = "idle"
    /\ UNCHANGED << files, call, printed, last_define, defined, attr, refs,
                    evicted, aux >>

\* TM88IV.__init__
Construct == ConstructWith(USER_AREAS_ASCII, USER_KANJI_AREAS_SJIS)

\* __init__ of a subclass that keeps the first nu and ng slots of the lists.
ConstructSubclass ==
    \E nu \in 0..MaxUserSlots, ng \in 0..MaxGaijiSlots :
        ConstructWith(SubSeq(USER_AREAS_ASCII, 1, nu),
                      SubSeq(USER_KANJI_AREAS_SJIS, 1, ng))

\* jptext2, lines 354-372: the attributes are set.
JpTextBegin(in) ==
    /\ pc = "idle"
    /\  LET n == mode_n(in.dw, in.dh, in.underline)
            b == mode_b(in.dw, in.dh, in.underline)
            msgs == set_commands(n, b, in.bflg, in.wbreverse)
        IN  /\ call' = [text |-> in.text, dw |-> in.dw, dh |-> in.dh,
                        underline |-> in.underline, wbreverse |-> in.wbreverse,
                        bflg |-> in.bflg, n |-> n, b |-> b, i |-> 1,
                        rasters |-> 0]
            /\ sent' = msgs
            /\ attr' = AttrAfter(attr, msgs)
    /\ pc' = "jptext2"
    /\ UNCHANGED << files, network, user_areas, gaiji_areas, font_cache, jis,
                    printed, last_define, defined, refs, evicted, aux >>

\* jptext2, lines 374-411: one iteration of 'for c in text'.
JpTextChar ==
    /\ pc = "jptext2"
    /\ call.i <= Len(call.text)
    /\ LET c == char_at(call.text, call.i)
           branch == classify(jis, c)
       IN  IF branch = "builtin"
           THEN /\ sent' = Append(sent, Raw(encode_cp932(c)))
                /\ call' = [call EXCEPT !.i = call.i + 1]
                /\ UNCHANGED << pc, user_areas, gaiji_areas, font_cache,
                                last_define, defined, refs, evicted >>
           ELSE LET p == profile(branch)
                    r == define_gaiji(user_areas, gaiji_areas, font_cache, <<c>>,
                                      p.font, p.size, p.adjustX, p.adjustY,
                                      asciiflg_of(branch))
                    to == propagate(r.err)
                    msgs == IF r.err = "" THEN Append(r.msgs, Raw(r.out))
                            ELSE r.msgs
                IN  /\ user_areas' = r.pools.user
                    /\ gaiji_areas' = r.pools.gaiji
                    /\ font_cache' = r.cache
                    /\ sent' = sent \o msgs
                    /\ call' = [call EXCEPT !.i = IF r.err = "" THEN @ + 1
                                                  ELSE @ + to.step,
                                             !.rasters = IF r.raster THEN @ + 1 ELSE @]
                    /\ pc' = IF r.err = "" THEN pc ELSE to.pc
                    /\ last_define' = [gaiji |-> <<c>>, out |-> r.out,
                                        again |-> <<c>> \in evicted,
                                        asciiflg |-> asciiflg_of(branch),
                                        err |-> r.err]
                    /\ defined' = DefinedAfter(defined, msgs)
                    /\ refs' = RefsAfter(refs, <<c>>, DefinedAfter(defined, msgs))
                    /\ evicted' = EvictedAfter(evicted, <<c>>, defined,
                                               DefinedAfter(defined, msgs))
    /\ UNCHANGED << files, network, jis, printed, attr, aux >>

\* jptext2, lines 413-418: the attributes are cleared.
JpTextEnd ==
    /\ pc = "jptext2"
    /\ call.i > Len(call.text)
    /\ LET msgs == clear_commands(call.n, call.bflg, call.wbreverse)
       IN  /\ sent' = sent \o msgs
           /\ attr' = AttrAfter(attr, msgs)
    /\ pc' = "return"
    /\ UNCHANGED << files, network, user_areas, gaiji_areas, font_cache, jis,
                    call, printed, last_define, defined, refs, evicted, aux >>

\* jptext2 returns to its caller.
JpTextReturn ==
    /\ pc = "return"
    /\ pc' = "idle"
    /\ call' = NoCall
    /\ sent' = <<>>
    /\ printed' = TRUE
    /\ UNCHANGED << files, network, user_areas, gaiji_areas, font_cache, jis,
                    last_define, defined, attr, refs, evicted, aux >>

\* jptext2, lines 374-409, when the font engine fails for the character of
\* the iteration: ImageFont.truetype (line 214, when the font is not cached
\* yet) or draw.text (line 247) raises inside _escpos_register_gaiji, after
\* _define_gaiji has given the character a slot (lines 326-327) and before
\* anything is sent (lines 264-271).
JpTextCharFails ==
    /\ pc = "jptext2"
    /\ call.i <= Len(call.text)
    /\ LET c == char_at(call.text, call.i)
           branch == classify(jis, c)
           p == profile(branch)
           to == propagate("OSError")
       IN  /\ branch # "builtin"
           /\ ~asciiflg_of(branch)
           /\ find_occupant(gaiji_areas, <<c>>) = 0
           /\ Len(gaiji_areas) > 0
           /\ gaiji_areas' = replace_first(gaiji_areas, <<c>>)
           /\ \/ /\ <<p.font, p.size, "unic">> \notin font_cache
                 /\ font_cache' = font_cache
              \/ font_cache' = get_font(font_cache, p.font, p.size, "unic")
           /\ pc' = to.pc
           /\ call' = [call EXCEPT !.i = @ + to.step]
           /\ last_define' = [gaiji |-> <<c>>, out |-> <<>>,
                               again |-> <<c>> \in evicted,
                               asciiflg |-> FALSE, err |-> "OSError"]
    /\ UNCHANGED << files, network, user_areas, jis, printed, sent, defined,
                    attr, refs, evicted, aux >>

\* The caller of jptext2 handles the exception and goes on with the session.
Caught ==
    /\ pc = "OSError"
    /\ pc' = "idle"
    /\ call' = NoCall
    /\ sent' = <<>>
    /\ printed' = TRUE
    /\ UNCHANGED << files, network, user_areas, gaiji_areas, font_cache, jis,
                    last_define, defined, attr, refs, evicted, aux >>

\* _define_gaiji(gaiji, font, size, adjustX, adjustY, asciiflg), called on
\* the session by its user, with the fallback font.
DefineCall(gaiji, asciiflg) ==
    /\ pc = "idle"
    /\ LET p == fallback_profile
           r == define_gaiji(user_areas, gaiji_areas, font_cache, gaiji,
                             p.font, p.size, p.adjustX, p.adjustY, asciiflg)
       IN  /\ user_areas' = r.pools.user
           /\ gaiji_areas' = r.pools.gaiji
           /\ font_cache' = r.cache
           /\ sent' = r.msgs
           /\ pc' = IF r.err = "" THEN "defined" ELSE r.err
           /\ last_define' = [gaiji |-> gaiji, out |-> r.out,
                               again |-> gaiji \in evicted,
                               asciiflg |-> asciiflg, err |-> r.err]
           /\ defined' = DefinedAfter(defined, r.msgs)
           /\ IF asciiflg
              THEN UNCHANGED << refs, evicted >>
              ELSE /\ refs' = RefsAfter(refs, gaiji, DefinedAfter(defined, r.msgs))
                   /\ evicted' = EvictedAfter(evicted, gaiji, defined,
                                              DefinedAfter(defined, r.msgs))
    /\ UNCHANGED << files, network, jis, call, printed, attr, aux >>

\* The caller has the value _define_gaiji returned, or the exception it
\* raised, and goes on with the session.
DefineReturn ==
    /\ pc \in {"defined", "TypeError"}
    /\ pc' = "idle"
    /\ sent' = <<>>
    /\ UNCHANGED << files, network, user_areas, gaiji_areas, font_cache, jis,
                    call, printed, last_define, defined, attr, refs, evicted,
                    aux >>

(* ----------------- _define_gaiji, several callers ------------------- *)
\* Two threads share the session.  A thread runs _define_gaiji for the
\* double-byte pool one dictionary operation at a time; the other thread
\* may run between any two of them.
Callers == {1, 2}
IdleCaller ==
    [pc |-> "idle", gaiji |-> <<>>, pos |-> 0, exhausted |-> FALSE,
     dirty |-> FALSE, hit |-> FALSE, k |-> <<>>, v |-> <<>>, out |-> <<>>]

\* d[k] = v of an OrderedDict: a new key goes to the end, a key that is
\* there keeps its place.
set_item(areas, k, v) ==
    IF \E i \in 1..Len(areas) : areas[i].k = k
    THEN [i \in 1..Len(areas) |->
             IF areas[i].k = k THEN [k |-> k, v |-> v] ELSE areas[i]]
    ELSE Append(areas, [k |-> k, v |-> v])
\* The position of key k, 0 when it is not there.
index_of(areas, k) ==
    IF \E i \in 1..Len(areas) : areas[i].k = k
    THEN CHOOSE i \in 1..Len(areas) : areas[i].k = k
    ELSE 0
\* The dictionary has changed under the iterators of the other threads:
\* their next step raises RuntimeError unless they are exhausted.
Mutated(t, mine) ==
    [u \in Callers |-> IF u = t THEN mine
                       ELSE [threads[u] EXCEPT !.dirty = TRUE]]

\* The session is handed to the two threads.
Fork ==
    /\ pc = "idle"
    /\ pc' = "callers"
    /\ threads' = [t \in Callers |-> IdleCaller]
    /\ sent' = <<>>
    /\ UNCHANGED << files, network, user_areas, gaiji_areas, font_cache, jis,
                    call, printed, last_define, defined, attr, refs, evicted,
                    bitmap, byte_array >>

\* Line 320: the first loop starts; its iterator is exhausted at once when
\* the pool is empty.
Enter(t, gaiji) ==
    /\ pc = "callers" /\ threads[t].pc = "idle"
    /\ threads' = [threads EXCEPT ![t] =
                      [IdleCaller EXCEPT !.pc = "loop1", !.gaiji = gaiji,
                                         !.pos = 1,
                                         !.exhausted = (Len(gaiji_areas) = 0)]]
    /\ UNCHANGED << files, pc, network, user_areas, gaiji_areas, font_cache,
                    jis, call, printed, sent, last_define, defined, attr, refs,
                    evicted, bitmap, byte_array >>

\* Lines 320-321: one iteration of 'for k, v in self._gaiji_areas.items()'.
Loop1(t) ==
    /\ pc = "callers" /\ threads[t].pc = "loop1"
    /\ LET me == threads[t]
       IN  threads' = [threads EXCEPT ![t] =
              IF me.exhausted THEN [me EXCEPT !.pc = "loop2"]
              ELSE IF me.dirty \/ me.pos > Len(gaiji_areas)
                   THEN [me EXCEPT !.pc = "RuntimeError"]
              ELSE IF gaiji_areas[me.pos].v = me.gaiji
                   THEN [me EXCEPT !.pc = "hit", !.hit = TRUE,
                                   !.k = gaiji_areas[me.pos].k]
              ELSE [me EXCEPT !.pos = @ + 1,
                              !.exhausted = (me.pos = Len(gaiji_areas))]]
    /\ UNCHANGED << files, pc, network, user_areas, gaiji_areas, font_cache,
                    jis, call, printed, sent, last_define, defined, attr, refs,
                    evicted, bitmap, byte_array >>

\* Line 322, right-hand side: self._gaiji_areas.pop(k).
HitPop(t) ==
    /\ pc = "callers" /\ threads[t].pc = "hit"
    /\ LET me == threads[t]
           i == index_of(gaiji_areas, me.k)
       IN  IF i = 0
           THEN /\ threads' = [threads EXCEPT ![t].pc = "KeyError"]
                /\ UNCHANGED gaiji_areas
           ELSE /\ gaiji_areas' = RemoveAt(gaiji_areas, i)
                /\ threads' = Mutated(t, [me EXCEPT !.pc = "hit_set",
                                                    !.v = gaiji_areas[i].v])
    /\ UNCHANGED << files, pc, network, user_areas, font_cache, jis, call,
                    printed, sent, last_define, defined, attr, refs, evicted,
                    bitmap, byte_array >>

\* Lines 322-323: self._gaiji_areas[k] = (the value popped); return c1 + k.
HitSet(t) ==
    /\ pc = "callers" /\ threads[t].pc = "hit_set"
    /\ LET me == threads[t]
       IN  /\ gaiji_areas' = set_item(gaiji_areas, me.k, me.v)
           /\ threads' = Mutated(t, [me EXCEPT !.pc = "left", !.out = c1 \o me.k])
    /\ UNCHANGED << files, pc, network, user_areas, font_cache, jis, call,
                    printed, sent, last_define, defined, attr, refs, evicted,
                    bitmap, byte_array >>

\* Line 325: the second loop takes the first entry; line 332 when there is
\* none.
Loop2(t) ==
    /\ pc = "callers" /\ threads[t].pc = "loop2"
    /\ LET me == threads[t]
       IN  threads' = [threads EXCEPT ![t] =
              IF Len(gaiji_areas) = 0 THEN [me EXCEPT !.pc = "left"]
              ELSE [me EXCEPT !.pc = "pop2", !.k = gaiji_areas[1].k]]
    /\ UNCHANGED << files, pc, network, user_areas, gaiji_areas, font_cache,
                    jis, call, printed, sent, last_define, defined, attr, refs,
                    evicted, bitmap, byte_array >>

\* Line 326: self._gaiji_areas.pop(k).
Pop2(t) ==
    /\ pc = "callers" /\ threads[t].pc = "pop2"
    /\ LET me == threads[t]
           i == index_of(gaiji_areas, me.k)
       IN  IF i = 0
           THEN /\ threads' = [threads EXCEPT ![t].pc = "KeyError"]
                /\ UNCHANGED gaiji_areas
           ELSE /\ gaiji_areas' = RemoveAt(gaiji_areas, i)
                /\ threads' = Mutated(t, [me EXCEPT !.pc = "set2"])
    /\ UNCHANGED << files, pc, network, user_areas, font_cache, jis, call,
                    printed, sent, last_define, defined, attr, refs, evicted,
                    bitmap, byte_array >>

\* Line 327: self._gaiji_areas[k] = gaiji.
Set2(t) ==
    /\ pc = "callers" /\ threads[t].pc = "set2"
    /\ LET me == threads[t]
       IN  /\ gaiji_areas' = set_item(gaiji_areas, me.k, me.gaiji)
           /\ threads' = Mutated(t, [me EXCEPT !.pc = "register"])
    /\ UNCHANGED << files, pc, network, user_areas, font_cache, jis, call,
                    printed, sent, last_define, defined, attr, refs, evicted,
                    bitmap, byte_array >>

\* Lines 329-330: the glyph is defined in slot k; return c1 + k.
RegisterSlot(t) ==
    /\ pc = "callers" /\ threads[t].pc = "register"
    /\ LET me == threads[t]
           p == fallback_profile
           reg == escpos_register_gaiji(font_cache, me.k, me.gaiji, p.font,
                                        p.size, p.adjustX, p.adjustY, FALSE)
       IN  /\ font_cache' = reg.cache
           /\ sent' = sent \o reg.msgs
           /\ defined' = DefinedAfter(defined, reg.msgs)
           /\ threads' = [threads EXCEPT ![t] =
                             [me EXCEPT !.pc = "left", !.out = c1 \o me.k]]
    /\ UNCHANGED << files, pc, network, user_areas, gaiji_areas, jis, call,
                    printed, last_define, attr, refs, evicted, bitmap,
                    byte_array >>

\* A session that prints once, any text with any attributes.
OneCall == pc = "idle" /\ ~printed /\ \E in \in Inputs : JpTextBegin(in)
Next == Construct \/ OneCall \/ JpTextChar \/ JpTextEnd \/ JpTextReturn
Spec == Init /\ [][Next]_vars

\* A session of any number of calls that print glyph characters.
PoolCall == pc = "idle" /\ \E in \in PoolInputs : JpTextBegin(in)
NextPool == Construct \/ PoolCall \/ JpTextChar \/ JpTextEnd \/ JpTextReturn
SpecPool == Init /\ [][NextPool]_vars

\* A session of any number of calls with attributes.
AttrCall == pc = "idle" /\ \E in \in AttrInputs : JpTextBegin(in)
NextAttr == Construct \/ AttrCall \/ JpTextChar \/ JpTextEnd \/ JpTextReturn
SpecAttr == Init /\ [][NextAttr]_vars

\* A session of any number of registrations in either pool: what a print
\* call does to the pools, it does by the _define_gaiji call of line 409.
DefineChars == {65, 20465, 128077, 2479}
DownloadChars == {65, 128077, 2479}
Register ==
    /\ pc = "idle"
    /\ \/ \E gaiji \in DefineChars : DefineCall(<<gaiji>>, FALSE)
       \/ \E gaiji \in DownloadChars : DefineCall(<<gaiji>>, TRUE)
NextDefine == Construct \/ Register \/ DefineReturn
SpecDefine == Init /\ [][NextDefine]_vars

\* A session of any number of calls in which the font engine may fail.
FailChars == {65, 128077, 2479}
FailInputs == ArgsOver(FailChars, MaxLen, {FALSE})
FailCall == pc = "idle" /\ \E in \in FailInputs : JpTextBegin(in)
NextFail ==
    \/ Construct \/ FailCall \/ JpTextChar \/ JpTextCharFails \/ Caught
    \/ JpTextEnd \/ JpTextReturn
SpecFail == Init /\ [][NextFail]_vars

\* A session of a subclass with fewer slots, possibly none.
SubInputs == ArgsOver(AttrChars, MaxLen, {FALSE})
SubCall == pc = "idle" /\ \E in \in SubInputs : JpTextBegin(in)
NextSub ==
    ConstructSubclass \/ SubCall \/ JpTextChar \/ JpTextEnd \/ JpTextReturn
SpecSub == Init /\ [][NextSub]_vars

\* A session that, after any registrations, is used by two threads that
\* each register one character.
ConcChars == {128077, 2479}
RegisterFirst ==
    pc = "idle" /\ \E gaiji \in ConcChars : DefineCall(<<gaiji>>, FALSE)
CallerStep ==
    \E t \in Callers :
        \/ \E gaiji \in ConcChars : Enter(t, <<gaiji>>)
        \/ Loop1(t) \/ HitPop(t) \/ HitSet(t)
        \/ Loop2(t) \/ Pop2(t) \/ Set2(t) \/ RegisterSlot(t)
NextConc == Construct \/ RegisterFirst \/ DefineReturn \/ Fork \/ CallerStep
SpecConc == Init /\ [][NextConc]_vars

(* ====================================================================== *)
(* Properties                                                             *)
(* ====================================================================== *)
\* The step about to be taken is an iteration of jptext2's loop.
AtChar == pc = "jptext2" /\ call.i <= Len(call.text)
\* The character of that iteration.
ThisChar == call.text[call.i]
\* The _raw calls the step makes.
New == SubSeq(sent', Len(sent) + 1, Len(sent'))
\* c is printed by the printer's own fonts.
BuiltIn(c) == isascii(c) \/ c \in JIS0201_TXT \/ c \in JIS0208_TXT
\* The slots that hold the glyph of gaiji, by the definitions sent so far.
SlotsOf(d, gaiji) == {k \in DOMAIN d : d[k].gaiji = gaiji}
\* The step sends a glyph definition.
SendsDefinition == \E j \in 1..Len(New) : IsDefinition(New[j]) \/ IsBitmap(New[j])
\* The characters of the pool, least recently used first.
Occupants(areas) ==
    Keep([i \in 1..Len(areas) |-> areas[i].v], {areas[i].v : i \in 1..Len(areas)} \ {<<>>})
PoolFull(d) == \A k \in DOMAIN d : d[k] # NoImage

(* C1: when the glyph character handled is the one the previous            *)
(* _define_gaiji call handled, the bytes returned are the same as then,    *)
(* 0xEC and a slot byte, they are all that is sent, and the rasterizer     *)
(* does not run.                                                           *)
SameGlyphTwiceInARow ==
    [][ (AtChar /\ ~BuiltIn(ThisChar) /\ last_define.gaiji = <<ThisChar>>)
        => /\ last_define'.out = last_define.out
           /\ Len(last_define'.out) = 2
           /\ SubSeq(last_define'.out, 1, 1) = <<236>>
           /\ SubSeq(last_define'.out, 2, 2) \in DOMAIN defined
           /\ New = << Raw(last_define.out) >>
           /\ ~SendsDefinition
           /\ call'.rasters = call.rasters ]_vars

\* The second of two calls printing U+1F44D, the only glyph of the session,
\* has been answered from slot 0x40 without a definition.
SameGlyphTwiceInARowReached ==
    /\ pc = "jptext2" /\ printed
    /\ call.text = <<128077>> /\ call.i = 2 /\ call.rasters = 0
    /\ sent = << Raw(<<236, 64>>) >>
    /\ DefinedChars(defined) = {<<128077>>}
    /\ defined[<<64>>].gaiji = <<128077>>

EvictsLeastRecentlyReferenced ==
    [][ (AtChar /\ ~BuiltIn(ThisChar))
        => /\ (PoolFull(defined) /\ SlotsOf(defined, <<ThisChar>>) = {})
              => /\ SlotsOf(defined', refs[1]) = {}
                 /\ SlotsOf(defined', <<ThisChar>>) = SlotsOf(defined, refs[1])
                 /\ \A k \in DOMAIN defined :
                        defined[k].gaiji # refs[1] => defined'[k] = defined[k]
                 /\ \A i \in 1..Len(gaiji_areas) :
                        gaiji_areas[i].v # refs[1] =>
                            \E j \in 1..Len(gaiji_areas') :
                                gaiji_areas'[j] = gaiji_areas[i]
                 /\ DefinedChars(defined') =
                        (DefinedChars(defined) \ {refs[1]}) \cup {<<ThisChar>>}
           /\ <<ThisChar>> \in evicted
              => /\ call'.rasters = call.rasters + 1
                 /\ \E j \in 1..(Len(New) - 1) :
                        /\ IsDefinition(New[j])
                        /\ New[j + 1].img.gaiji = <<ThisChar>> ]_vars

\* A character that had lost its slot has been requested again while the
\* pool was full: it has been defined afresh in a slot taken from another
\* character.
EvictsLeastRecentlyReferencedReached ==
    /\ pc = "jptext2" /\ call.i = 2 /\ call.rasters = 1
    /\ PoolFull(defined)
    /\ last_define.gaiji = <<call.text[1]>> /\ last_define.again
    /\ evicted # {}
    /\ Len(sent) = 3 /\ IsDefinition(sent[1])
    /\ sent[2].img.gaiji = <<call.text[1]>>
    /\ \E k \in DOMAIN defined :
          /\ k # <<64>>
          /\ defined[k].gaiji = <<call.text[1]>> /\ sent[3] = Raw(<<236>> \o k)

(* C4: the pool lists its characters by their last reference, the oldest   *)
(* first: a hit makes the character the most recently used one.            *)
PoolOrderIsReferenceOrder ==
    pc \in {"idle", "jptext2", "return"} => Occupants(gaiji_areas) = refs

\* Three characters a, b, c were registered in slots 0x40, 0x41, 0x42 and a
\* has just been requested again: the least recently used is b.
PoolOrderIsReferenceOrderReached ==
    /\ pc = "jptext2" /\ call.i = 2 /\ call.rasters = 0
    /\ evicted = {}
    /\ Len(gaiji_areas) >= 3
    /\ LET n == Len(gaiji_areas)
       IN  /\ gaiji_areas[n].k = <<64>> /\ gaiji_areas[n].v = <<call.text[1]>>
           /\ gaiji_areas[n - 1].k = <<66>> /\ gaiji_areas[n - 1].v # <<>>
           /\ gaiji_areas[n - 2].k = <<65>> /\ gaiji_areas[n - 2].v = refs[1]
    /\ Len(refs) = 3

(* C5: the pools outlive a call, and a character that has a slot is        *)
(* answered with that slot's code and nothing else is sent, in the call    *)
(* that registered it and in every later one, until the slot is given to   *)
(* another character.                                                      *)
SlotStableUntilEvicted ==
    [][ /\ (AtChar /\ ~BuiltIn(ThisChar))
           => \A k \in SlotsOf(defined, <<ThisChar>>) :
                 /\ New = << Raw(<<236>> \o k) >>
                 /\ defined' = defined
                 /\ call'.rasters = call.rasters
                 /\ \E i \in 1..Len(gaiji_areas') :
                        gaiji_areas'[i] = [k |-> k, v |-> <<ThisChar>>]
        /\ (pc \in {"idle", "return"} \/ (pc = "jptext2" /\ ~AtChar))
           => /\ gaiji_areas' = gaiji_areas
              /\ user_areas' = user_areas
              /\ font_cache' = font_cache ]_vars

\* In a later call, the character of slot 0x41 is answered from that slot
\* after another character has been registered in slot 0x42.
SlotStableUntilEvictedReached ==
    /\ pc = "jptext2" /\ printed /\ call.i = 2 /\ call.rasters = 0
    /\ sent = << Raw(<<236, 65>>) >>
    /\ defined[<<65>>].gaiji = <<call.text[1]>>
    /\ defined[<<66>>] # NoImage
    /\ gaiji_areas[Len(gaiji_areas)] = [k |-> <<65>>, v |-> <<call.text[1]>>]

(* ---------------------- attributes and ordering ----------------------- *)
\* The positions of the log that carry character output: everything that
\* is not an attribute command.
CharPositions == {j \in 1..Len(sent) : ~IsAttribute(sent[j])}
\* Position s sets the underline bit with a command of kind K.
SetsUnderline(K(_), s) == K(sent[s]) /\ (sent[s].bytes[3] \div 128) % 2 = 1
\* Position e clears the attributes of kind K.
Clears(K(_), e) == K(sent[e]) /\ sent[e].bytes[3] = 0
\* A command of kind K sets the underline before every character output
\* and, once the call is over, a command of kind K clears after all of it.
Bracketed(K(_)) ==
    \E s \in 1..Len(sent) :
        /\ SetsUnderline(K, s)
        /\ \A j \in CharPositions : s < j
        /\ pc = "return"
           => \E e \in (s + 1)..Len(sent) :
                 /\ Clears(K, e)
                 /\ \A j \in CharPositions : j < e

Mirrored(K(_)) ==
    LET sets   == {j \in 1..Len(sent) : K(sent[j]) /\ sent[j].bytes[3] # 0}
        clears == {j \in 1..Len(sent) : Clears(K, j)}
    IN  /\ Cardinality(clears) = Cardinality(sets)
        /\ Cardinality(sets) <= 1
        /\ \A e \in clears :
              /\ \A s \in sets : s < e
              /\ \A j \in CharPositions : j < e

MissingFileFailsFirst ==
    \A f \in ConfigFiles :
        (f \notin files /\ pc # "new")
        => /\ pc = "FileNotFoundError"
           /\ ~network
           /\ sent = <<>>
           /\ user_areas = <<>> /\ gaiji_areas = <<>> /\ font_cache = {}
           /\ jis = [x0201 |-> {}, x0208 |-> {}, x0212 |-> {}, x0213 |-> {}]

\* Construction has failed with only the kanji font missing.
MissingFileFailsFirstReached ==
    /\ pc = "FileNotFoundError"
    /\ files = ConfigFiles \ {kanji_font_file}
    /\ ~network /\ sent = <<>>

\* The profile the decision order gives to a character that is not built-in.
ProfileOf(c) ==
    IF c \in JIS0212_TXT \/ c \in JIS0213_TXT THEN kanji_profile
    ELSE IF is_emoji(c) THEN emoji_profile
    ELSE fallback_profile

(* C9: each character takes the first path that matches: ASCII, JIS X 0201 *)
(* and JIS X 0208 are sent as their cp932 bytes and touch no slot; then    *)
(* JIS X 0212 and JIS X 0213 get a glyph of the kanji profile, then an     *)
(* emoji one of the emoji profile, and anything else one of the fallback   *)
(* profile.                                                                *)
FirstMatchWins ==
    [][ AtChar
        => IF BuiltIn(ThisChar)
           THEN /\ New = << Raw(encode_cp932(ThisChar)) >>
                /\ UNCHANGED << user_areas, gaiji_areas, font_cache, defined >>
                /\ call'.rasters = call.rasters
           ELSE /\ New # <<>>
                /\ IsSelection(New[Len(New)])
                /\ \E k \in DOMAIN defined' :
                      /\ New[Len(New)] = Raw(c1 \o k)
                      /\ defined'[k] =
                            Image(<<ThisChar>>, ProfileOf(ThisChar).font,
                                  ProfileOf(ThisChar).size,
                                  ProfileOf(ThisChar).adjustX,
                                  ProfileOf(ThisChar).adjustY, FALSE) ]_vars

\* A character of both JIS X 0208 and JIS X 0213 has been sent as its cp932
\* bytes, and one of JIS X 0213 that is an emoji too has been drawn with
\* the kanji profile.
FirstMatchWinsReached ==
    /\ pc = "return" /\ call.text = <<20124, 9832>>
    /\ Len(sent) >= 4
    /\ \E h \in 0..(Len(sent) - 4) :
          /\ sent[h + 1] = Raw(<<136, 159>>)
          /\ IsDefinition(sent[h + 2])
          /\ sent[h + 3] = RawBitmap(Image(<<9832>>, kanji_font_file, 24, 0, -8, FALSE))
          /\ sent[h + 4] = Raw(<<236, 64>>)
    /\ defined[<<64>>].font = kanji_font_file

\* The character output of the log.
RECURSIVE Keep_output(_)
Keep_output(msgs) ==
    IF msgs = <<>> THEN <<>>
    ELSE IF IsAttribute(msgs[1]) THEN Keep_output(Tail(msgs))
    ELSE <<msgs[1]>> \o Keep_output(Tail(msgs))

\* msgs is one chunk for each character of text, in the order of text: the
\* cp932 bytes of a built-in character; for another one its selection,
\* preceded by the definition of the selected slot with its glyph if it
\* missed.
RECURSIVE OneChunkEach(_, _)
OneChunkEach(msgs, text) ==
    IF text = <<>> THEN msgs = <<>>
    ELSE IF msgs = <<>> THEN FALSE
    ELSE IF BuiltIn(text[1])
         THEN msgs[1] = Raw(encode_cp932(text[1]))
              /\ OneChunkEach(Tail(msgs), Tail(text))
         ELSE \/ /\ IsSelection(msgs[1])
                 /\ OneChunkEach(Tail(msgs), Tail(text))
              \/ /\ Len(msgs) >= 3
                 /\ IsDefinition(msgs[1])
                 /\ IsBitmap(msgs[2]) /\ msgs[2].img.gaiji = <<text[1]>>
                 /\ msgs[3] = Raw(c1 \o SubSeq(msgs[1].bytes, 4, 4))
                 /\ OneChunkEach(SubSeq(msgs, 4, Len(msgs)), Tail(text))

(* C10: what a call has sent is its attribute-set commands, then one chunk *)
(* for each character processed so far, in the order of the text, then,    *)
(* when the loop is over, its attribute-clear commands: no attribute       *)
(* command and no chunk of another character lies between two chunks.      *)
OneChunkPerCharacterInOrder ==
    pc \in {"jptext2", "return"}
    => /\ OneChunkEach(Keep_output(sent), SubSeq(call.text, 1, call.i - 1))
       /\ pc = "return" => call.i = Len(call.text) + 1
       /\ \A j \in 1..Len(sent) :
             IsAttribute(sent[j])
             => \/ sent[j].bytes[3] # 0 /\ \A o \in CharPositions : j < o
                \/ sent[j].bytes[3] = 0 /\ pc = "return"
                   /\ \A o \in CharPositions : o < j

\* A glyph character and then a built-in one have been printed in double
\* width: set, definition, bitmap, selection, 'A', clear.
OneChunkPerCharacterInOrderReached ==
    /\ pc = "return" /\ call.text = <<128077, 65>>
    /\ call.dw /\ ~call.dh /\ ~call.underline /\ ~call.wbreverse /\ ~call.bflg
    /\ Len(sent) = 6
    /\ sent[1] = Raw(<<28, 33, 4>>)
    /\ sent[2] = Raw(<<28, 50, 236, 64>>)
    /\ sent[3].img.gaiji = <<128077>>
    /\ sent[4] = Raw(<<236, 64>>)
    /\ sent[5] = Raw(<<65>>)
    /\ sent[6] = Raw(<<28, 33, 0>>)

(* ------------------------- glyph definition --------------------------- *)
\* The sizes Image.new is called with (lines 241-244).
Sizes == {[w |-> 12, h |-> 24], [w |-> 24, h |-> 24]}
Pixels(sz) == (0..(sz.w - 1)) \X (0..(sz.h - 1))
Blank(sz) == [w |-> sz.w, h |-> sz.h, black |-> {}]
Solid(sz) == [w |-> sz.w, h |-> sz.h, black |-> Pixels(sz)]

\* The step registers a character that has no slot.
Misses == AtChar /\ ~BuiltIn(ThisChar) /\ SlotsOf(defined, <<ThisChar>>) = {}
\* What follows the header New[1] when a character is registered in slot k:
\* the packed bitmap of its 24x24 glyph, 72 bytes whatever the glyph is,
\* and after the definition the selection of the slot.
BitmapThenSelection(k) ==
    /\ Len(New) = 3
    /\ New[2].bytes = <<>>
    /\ New[2].img.gaiji = <<ThisChar>>
    /\ [w |-> New[2].img.w, h |-> New[2].img.h] = [w |-> 24, h |-> 24]
    /\ Len(pack(Blank(New[2].img))) = 72
    /\ Len(pack(Solid(New[2].img))) = 72
    /\ New[3] = Raw(c1 \o k)

(* C11: when a character is registered in the double-byte pool, what is    *)
(* sent to define its glyph is FS '2', then 0xEC, then the slot's low byte *)
(* once, then the 72 packed bytes of the 24x24 bitmap, and nothing else.   *)
DefinitionNamesSlotOnce ==
    [][ Misses
        => \E k \in DOMAIN defined :
              /\ New[1] = Raw(<<28, 50, 236>> \o k)
              /\ BitmapThenSelection(k) ]_vars

\* After a built-in character, a character has been registered in slot 0x40.
DefinitionNamesSlotOnceReached ==
    /\ pc = "jptext2" /\ call.i = 3 /\ call.rasters = 1
    /\ call.text = <<65, 128077>>
    /\ sent = << Raw(<<65>>), Raw(<<28, 50, 236, 64>>),
                 RawBitmap(Image(<<128077>>, emoji_font_file, 20, 0, 0, FALSE)),
                 Raw(<<236, 64>>) >>
    /\ defined[<<64>>].gaiji = <<128077>>

\* C11 as stated: the slot's low byte is sent twice after 0xEC.
DefinitionNamesSlotTwice ==
    [][ Misses
        => \E k \in DOMAIN defined :
              /\ New[1] = Raw(<<28, 50, 236>> \o k \o k)
              /\ BitmapThenSelection(k) ]_vars

(* ------------------------------ packing ------------------------------- *)
\* Sets of at most n rows.
RECURSIVE RowSets(_, _)
RowSets(h, n) ==
    IF n = 0 THEN {{}}
    ELSE RowSets(h, n - 1)
         \cup {R \cup {y} : R \in RowSets(h, n - 1), y \in 0..(h - 1)}
\* Pixel sets within one column.
ColumnSets(sz) ==
    {{<<x, y>> : y \in R} : x \in 0..(sz.w - 1), R \in RowSets(sz.h, MaxPixels)}
\* The bitmaps handed to the packer: blank but for the pixels of one column
\* set, and solid.
Bitmaps ==
    UNION {{[w |-> sz.w, h |-> sz.h, black |-> P] : P \in ColumnSets(sz)}
           \cup {Solid(sz)} : sz \in Sizes}

\* _escpos_register_gaiji with the bitmap the font engine has produced.
InitPack ==
    /\ files = ConfigFiles
    /\ pc = "pack"
    /\ network = TRUE
    /\ user_areas = <<>>
    /\ gaiji_areas = <<>>
    /\ font_cache = {}
    /\ jis = [x0201 |-> {}, x0208 |-> {}, x0212 |-> {}, x0213 |-> {}]
    /\ call = NoCall
    /\ printed = FALSE
    /\ sent = <<>>
    /\ last_define = NoDefine
    /\ defined = [k \in Range(USER_KANJI_AREAS_SJIS) |-> NoImage]
    /\ attr = [single |-> 0, kanji |-> 0, reverse |-> 0]
    /\ refs = <<>>
    /\ evicted = {}
    /\ bitmap \in Bitmaps
    /\ byte_array = <<>>
    /\ threads = <<>>

\* Lines 250-262.
Pack ==
    /\ pc = "pack"
    /\ byte_array' = pack(bitmap)
    /\ pc' = "packed"
    /\ UNCHANGED << files, network, user_areas, gaiji_areas, font_cache, jis,
                    call, printed, sent, last_define, defined, attr, refs,
                    evicted, bitmap, threads >>

NextPack == Pack
SpecPack == InitPack /\ [][NextPack]_vars

\* Bit b of a byte, bit 0 the least significant.
BitOf(byte, b) == (byte \div (2 ^ b)) % 2

(* C12: a W x 24 bitmap packs to W x 3 bytes, column by column from the    *)
(* left and within a column from the top: bit 7 - i of byte 3x + g is set  *)
(* exactly when pixel (x, 8g + i) is black.                                *)
PackedColumnMajor ==
    pc = "packed"
    => /\ Len(byte_array) = bitmap.w * 3
       /\ \A x \in 0..(bitmap.w - 1), g \in 0..2, i \in 0..7 :
             /\ byte_array[3 * x + g + 1] \in 0..255
             /\ BitOf(byte_array[3 * x + g + 1], 7 - i) = 1
                   <=> <<x, 8 * g + i>> \in bitmap.black
       /\ bitmap = Solid([w |-> 24, h |-> 24])
             => byte_array = [j \in 1..72 |-> 255]
       /\ bitmap = Blank([w |-> 24, h |-> 24])
             => byte_array = [j \in 1..72 |-> 0]

\* A 12 x 24 bitmap whose only black pixel is (5, 9) has been packed: byte
\* 3 * 5 + 1 is 0x40 and the other 35 bytes are 0.
PackedColumnMajorReached ==
    /\ pc = "packed"
    /\ bitmap = [w |-> 12, h |-> 24, black |-> {<<5, 9>>}]
    /\ byte_array = [j \in 1..36 |-> IF j = 17 THEN 64 ELSE 0]

(* ------------------------------ the pools ----------------------------- *)
\* No two entries of the pool hold the same character.
OneSlotEach(areas) ==
    \A i, j \in 1..Len(areas) :
        (areas[i].v # <<>> /\ areas[i].v = areas[j].v) => i = j

(* C13: in each pool a character is the occupant of at most one slot, and  *)
(* on the device a character's glyph is the latest definition of at most   *)
(* one double-byte slot.                                                   *)
OccupantsAreUnique ==
    /\ OneSlotEach(user_areas)
    /\ OneSlotEach(gaiji_areas)
    /\ \A k1, k2 \in DOMAIN defined :
          (defined[k1] # NoImage /\ defined[k1].gaiji = defined[k2].gaiji)
          => k1 = k2

\* Both pools are full, the double-byte one has evicted a character, and
\* a character is in both pools.
OccupantsAreUniqueReached ==
    /\ pc = "idle"
    /\ \A i \in 1..Len(user_areas) : user_areas[i].v # <<>>
    /\ \A i \in 1..Len(gaiji_areas) : gaiji_areas[i].v # <<>>
    /\ evicted # {}
    /\ \E i \in 1..Len(user_areas), j \in 1..Len(gaiji_areas) :
          user_areas[i].v = gaiji_areas[j].v

\* The pool holds the slots of the list, each once.
SlotsOfList(areas, list) ==
    /\ Len(areas) = Len(list)
    /\ {areas[i].k : i \in 1..Len(areas)} = Range(list)
    /\ \A i, j \in 1..Len(areas) : areas[i].k = areas[j].k => i = j

(* C14: once constructed, each pool holds the slots of its class list,     *)
(* each of them once, whatever has been registered, hit or evicted; the    *)
(* lists enumerate code spaces of 95 and 94 codes.                         *)
SlotIdsAreFixed ==
    /\ pc \notin {"new", "FileNotFoundError"}
       => /\ SlotsOfList(user_areas, USER_AREAS_ASCII)
          /\ SlotsOfList(gaiji_areas, USER_KANJI_AREAS_SJIS)
    /\ Cardinality(UserCodeSpace) = 95
    /\ Cardinality(KanjiCodeSpace) = 94
    /\ \A k \in Range(USER_AREAS_ASCII) : k[1] \in UserCodeSpace
    /\ \A k \in Range(USER_KANJI_AREAS_SJIS) : k[1] \in KanjiCodeSpace

\* Both pools have evicted: their first slots are at the end of the order
\* with their second occupants.
SlotIdsAreFixedReached ==
    /\ pc = "idle"
    /\ evicted # {}
    /\ gaiji_areas[Len(gaiji_areas)].k = <<64>>
    /\ user_areas[Len(user_areas)].k = <<32>>
    /\ \A i \in 1..Len(user_areas) : user_areas[i].v # <<>>
    /\ \A i \in 1..Len(gaiji_areas) : gaiji_areas[i].v # <<>>
    /\ last_define.asciiflg /\ last_define.err = ""
    /\ last_define.out = <<27, 37, 1, 32, 27, 37, 0>>

\* The step is a call of _define_gaiji with asciiflg true.
RegistersDownloadChar ==
    pc = "idle" /\ pc' \in {"defined", "TypeError"} /\ last_define'.asciiflg

(* C15: a registration in the single-byte pool returns ESC % 1, the slot's *)
(* byte, ESC % 0, when the character is new to the pool and when it is     *)
(* already there; called again right after for the same character it       *)
(* returns the same bytes.                                                 *)
DownloadCharHitRepeatsMiss ==
    [][ RegistersDownloadChar
        => /\ pc' = "defined"
           /\ \E k \in Range(USER_AREAS_ASCII) :
                 last_define'.out = <<27, 37, 1>> \o k \o <<27, 37, 0>>
           /\ (last_define.asciiflg /\ last_define.err = ""
               /\ last_define.gaiji = last_define'.gaiji)
              => last_define'.out = last_define.out ]_vars

(* ------------------------------ failures ------------------------------ *)
\* The step is an iteration for a character that has no entry in the pool
\* and it sends no definition: the glyph could not be drawn.
FontEngineFails ==
    /\ AtChar /\ ~BuiltIn(ThisChar)
    /\ \A j \in 1..Len(gaiji_areas) : gaiji_areas[j].v # <<ThisChar>>
    /\ ~SendsDefinition

(* C16: when the font engine fails for a character, jptext2 ends with the  *)
(* exception: what it has sent is the chunks of the characters before the  *)
(* failed one, it sends nothing for the failed character, and nothing more *)
(* before the call is over.                                                *)
FontErrorPropagates ==
    [][ /\ FontEngineFails
           => /\ pc' = "OSError"
              /\ sent' = sent
              /\ call'.i = call.i
              /\ OneChunkEach(Keep_output(sent'),
                              SubSeq(call'.text, 1, call'.i - 1))
        /\ pc = "OSError" => (pc' = "idle" /\ sent' = <<>>) ]_vars

\* The font engine has failed for the first character of a text of two:
\* nothing has been sent, for it or for the character after it, and the
\* slot the pool has given it holds no glyph.
FontErrorPropagatesReached ==
    /\ pc = "OSError"
    /\ Len(call.text) = 2 /\ call.i = 1
    /\ call.text[1] = 2479 /\ call.text[2] = 65
    /\ sent = <<>>
    /\ last_define.gaiji = <<2479>> /\ last_define.err = "OSError"
    /\ defined[<<64>>] = NoImage
    /\ gaiji_areas[Len(gaiji_areas)] = [k |-> <<64>>, v |-> <<2479>>]

(* C17: when the double-byte pool has no slot, registering a character     *)
(* ends in an error: the print call is over, and nothing, not even an      *)
(* empty byte string, is sent for the character.                           *)
NoSlotIsFatal ==
    [][ (AtChar /\ ~BuiltIn(ThisChar) /\ Len(gaiji_areas) = 0)
        => /\ pc' \notin {"jptext2", "return", "idle"}
           /\ sent' = sent
           /\ call'.i = call.i ]_vars

(* --------------------------- the print path --------------------------- *)
\* The message carries ESC & (definition of download characters) or ESC %
\* (selection of the download character set).
IsDownloadCommand(m) ==
    \E q \in 1..(Len(m.bytes) - 1) :
        m.bytes[q] = 27 /\ m.bytes[q + 1] \in {37, 38}

(* C18: whatever jptext2 has printed, the single-byte pool is as __init__  *)
(* made it, every slot empty and in the order of the list, and no          *)
(* download-character definition or selection has been sent.               *)
DownloadPoolUntouched ==
    pc \in {"idle", "jptext2", "return"}
    => /\ user_areas = [i \in 1..Len(USER_AREAS_ASCII) |->
                           [k |-> USER_AREAS_ASCII[i], v |-> <<>>]]
       /\ \A j \in 1..Len(sent) : ~IsDownloadCommand(sent[j])

\* In a later call, after an eviction, a character of the fallback branch
\* has been registered and selected as a double-byte glyph.
DownloadPoolUntouchedReached ==
    /\ pc = "return" /\ printed
    /\ evicted # {}
    /\ call.text = <<2479>> /\ call.rasters = 1
    /\ Len(sent) = 3
    /\ IsDefinition(sent[1])
    /\ sent[2].img.font = fallback_font_file
    /\ IsSelection(sent[3])
    /\ \A i \in 1..Len(user_areas) : user_areas[i].v = <<>>

\* The commands that set an attribute: ESC ! b, FS ! n, GS B r with a
\* non-zero operand.
SetsPrintMode(m) == IsPrintMode(m) /\ m.bytes[3] # 0
SetsKanjiMode(m) == IsKanjiMode(m) /\ m.bytes[3] # 0
SetsReverse(m) == IsReverse(m) /\ m.bytes[3] # 0
SetsAttribute(m) == IsAttribute(m) /\ m.bytes[3] # 0

(* C19: a call sends FS ! n exactly when one of dw, dh, underline is asked *)
(* for, with n = 4, 8, 128 added up for those asked; it sends ESC ! b      *)
(* exactly when bflg is asked for as well, with b = 16, 32, 128 added up,  *)
(* and before FS !; it sends GS B 1 exactly when wbreverse is asked for.   *)
AttributeSetFraming ==
    pc \in {"jptext2", "return"}
    => LET any == call.dw \/ call.dh \/ call.underline
           n == (IF call.dw THEN 4 ELSE 0) + (IF call.dh THEN 8 ELSE 0)
                + (IF call.underline THEN 128 ELSE 0)
           b == (IF call.dw THEN 16 ELSE 0) + (IF call.dh THEN 32 ELSE 0)
                + (IF call.underline THEN 128 ELSE 0)
       IN  /\ SelectSeq(sent, SetsKanjiMode)
                = IF any THEN << Raw(<<28, 33, n>>) >> ELSE <<>>
           /\ SelectSeq(sent, SetsPrintMode)
                = IF any /\ call.bflg THEN << Raw(<<27, 33, b>>) >> ELSE <<>>
           /\ SelectSeq(sent, SetsReverse)
                = IF call.wbreverse THEN << Raw(<<29, 66, 1>>) >> ELSE <<>>
           /\ \A i, j \in 1..Len(sent) :
                 (SetsPrintMode(sent[i]) /\ SetsKanjiMode(sent[j])) => i < j
           /\ \A i \in 1..Len(sent) :
                 SetsAttribute(sent[i])
                 => \A j \in 1..(i - 1) : SetsAttribute(sent[j])

\* A call with every flag has set the three attributes and sent nothing
\* else yet.
AttributeSetFramingReached ==
    /\ pc = "jptext2" /\ call.i = 1 /\ Len(call.text) = 2
    /\ call.dw /\ call.dh /\ call.underline /\ call.wbreverse /\ call.bflg
    /\ sent = << Raw(<<27, 33, 176>>), Raw(<<28, 33, 140>>), Raw(<<29, 66, 1>>) >>

(* --------------------------- several callers -------------------------- *)
\* Both threads asked for character gaiji, both missed, and both have
\* returned a selection.
BothMissed(gaiji) ==
    /\ pc = "callers"
    /\ \A t \in Callers : /\ threads[t].pc = "left"
                          /\ threads[t].gaiji = gaiji
                          /\ ~threads[t].hit
                          /\ threads[t].out # <<>>
SlotsHolding(areas, gaiji) == {i \in 1..Len(areas) : areas[i].v = gaiji}

(* C20: when two threads miss concurrently for the same character on one  *)
(* session, the character afterwards occupies at most one slot of the      *)
(* pool.                                                                   *)
ConcurrentMissesShareOneSlot ==
    \A c \in ConcChars :
        BothMissed(<<c>>) => Cardinality(SlotsHolding(gaiji_areas, <<c>>)) <= 1

(* ------------------------- failed registration ------------------------ *)
\* The step is a miss whose registration fails.
RegistrationFails == pc = "jptext2" /\ pc' = "OSError"

(* C21: a registration that fails during a miss leaves the double-byte     *)
(* pool as it was before the call, occupants and recency order, so the     *)
(* character is not recorded as the occupant of any slot.                  *)
FailedRegistrationLeavesPool ==
    [][RegistrationFails =>
          /\ gaiji_areas' = gaiji_areas
          /\ find_occupant(gaiji_areas', last_define'.gaiji) = 0]_vars

(* ----------------------------- empty slots ---------------------------- *)
\* In the order of the pool, no occupied slot comes before an empty one.
EmptyFirst(areas) ==
    \A i, j \in 1..Len(areas) :
        (i < j /\ areas[j].v = <<>>) => areas[i].v = <<>>
\* The pool has no empty slot.
Full(areas) == \A i \in 1..Len(areas) : areas[i].v # <<>>
\* The step takes a resident character out of the pool.
EvictsResident(areas, after) ==
    \E i \in 1..Len(areas) :
        /\ areas[i].v # <<>>
        /\ find_occupant(after, areas[i].v) = 0

(* C22: in each pool, from least to most recently used, every empty slot   *)
(* comes before every occupied slot, whatever jptext2 has printed; a step  *)
(* takes a resident character out of a pool only when the pool has no      *)
(* empty slot left.                                                        *)
EmptySlotsComeFirst ==
    /\ [](EmptyFirst(gaiji_areas) /\ EmptyFirst(user_areas))
    /\ [][/\ EvictsResident(gaiji_areas, gaiji_areas') => Full(gaiji_areas)
          /\ EvictsResident(user_areas, user_areas') => Full(user_areas)]_vars

\* After a hit has reordered the residents, the pool still has an empty
\* slot, in front of the two residents.
EmptySlotsComeFirstReached ==
    /\ pc = "return"
    /\ Len(gaiji_areas) = Len(USER_KANJI_AREAS_SJIS)
    /\ gaiji_areas[1].v = <<>>
    /\ \E i \in 2..(Len(gaiji_areas) - 1) :
          /\ gaiji_areas[i].v # <<>>
          /\ gaiji_areas[i + 1].v # <<>>
          /\ gaiji_areas[i].k[1] > gaiji_areas[i + 1].k[1]
          /\ last_define.gaiji = gaiji_areas[i + 1].v

(* ------------------------- built-in characters ------------------------ *)
\* The message defines a glyph, carries a bitmap, or selects a slot.
IsGlyphCommand(m) ==
    IsDefinition(m) \/ IsBitmap(m) \/ IsSelection(m) \/ IsDownloadCommand(m)

(* C23: printing a character of ASCII, JIS X 0201 or JIS X 0208 leaves     *)
(* both pools, occupants and order, and the font cache as they were, and   *)
(* sends the character's cp932 bytes in one message and nothing else: no   *)
(* glyph definition, no bitmap, no selection.                              *)
BuiltInLeavesPools ==
    [][(AtChar /\ BuiltIn(ThisChar))
       => /\ gaiji_areas' = gaiji_areas
          /\ user_areas' = user_areas
          /\ font_cache' = font_cache
          /\ Len(New) = 1
          /\ New[1].bytes = encode_cp932(ThisChar)
          /\ ~IsGlyphCommand(New[1])
          /\ pc' = "jptext2" /\ call'.i = call.i + 1]_vars

\* A character of JIS X 0208 that is in JIS X 0213 too has been printed
\* after an emoji: the emoji keeps its slot at the recent end of the pool,
\* the font cache holds the emoji font only, and the last character message
\* is the two cp932 bytes.
BuiltInLeavesPoolsReached ==
    /\ pc = "jptext2" /\ call.text = <<128077, 20124>> /\ call.i = 3
    /\ sent[Len(sent)] = Raw(<<136, 159>>)
    /\ IsSelection(sent[Len(sent) - 1])
    /\ gaiji_areas[Len(gaiji_areas)] = [k |-> <<64>>, v |-> <<128077>>]
    /\ \A i \in 1..(Len(gaiji_areas) - 1) : gaiji_areas[i].v = <<>>
    /\ Cardinality(font_cache) = 1
    /\ call.rasters = 1

====
